---- MODULE Spec2Model ----
(***************************************************************************)
(* A model of the CNAB fixed-width record processor                        *)
(* (src/cnab/processor.go): LoadSpec, ParseRecord and PackRecord over a    *)
(* loaded field specification, with the byte-buffer pool PackRecord draws  *)
(* its output buffer from.                                                 *)
(*                                                                         *)
(* Bytes are one-character strings; a Go string or []byte is a sequence of *)
(* bytes.  Go's int is two's complement of IntBits bits.  A value of type  *)
(* interface{} is a record tagged with its dynamic type.                   *)
(***************************************************************************)
EXTENDS Integers, Sequences, FiniteSets, TLC

(***************************************************************************)
(* Bounds of the model.                                                    *)
(***************************************************************************)
\* Width of Go's int in the model (64 in the build), kept small so that the
\* wrap-around of start + length - 1 is reachable.
IntBits == 5
\* Capacity of a buffer made by recordPool.New (1024 in the source), kept
\* small so that both branches of "cap(buf) < totalLength" are reachable.
PoolCap == 3
\* Number of PackRecord calls in one behaviour.
MaxPacks == 2

(***************************************************************************)
(* Go's int.                                                               *)
(***************************************************************************)
MaxInt == 2^(IntBits - 1) - 1
MinInt == -(2^(IntBits - 1))
Wrap(x) == ((x - MinInt) % (2^IntBits)) + MinInt

(***************************************************************************)
(* Bytes and strings.                                                      *)
(***************************************************************************)
Digits == <<"0", "1", "2", "3", "4", "5", "6", "7", "8", "9">>
NUL == "NUL"
SP == " "

IsDigit(c) == \E i \in 1..10 : Digits[i] = c
DigitVal(c) == (CHOOSE i \in 1..10 : Digits[i] = c) - 1

RECURSIVE Repeat(_, _)
Repeat(c, n) == IF n <= 0 THEN <<>> ELSE <<c>> \o Repeat(c, n - 1)

\* The decimal digits of a natural number.
RECURSIVE Itoa(_)
Itoa(n) == IF n < 10 THEN <<Digits[n + 1]>>
           ELSE Itoa(n \div 10) \o <<Digits[(n % 10) + 1]>>

\* bytes.TrimSpace over the model's alphabet, whose only white space is " ".
RECURSIVE TrimLeft(_)
TrimLeft(s) == IF s # <<>> /\ Head(s) = SP THEN TrimLeft(Tail(s)) ELSE s
RECURSIVE TrimRight(_)
TrimRight(s) == IF s # <<>> /\ s[Len(s)] = SP
                THEN TrimRight(SubSeq(s, 1, Len(s) - 1)) ELSE s
\* A decode that does not trim its input.
TrimNothing(s) == s

TrimSpace(s) == TrimRight(TrimLeft(s))

\* s[low:high] of Go (0-based, high exclusive) for in-range bounds.
Slice(s, low, high) == SubSeq(s, low + 1, high)

\* strings.ReplaceAll(s, old, new) for a non-empty old.
HasPrefix(s, p) == Len(s) >= Len(p) /\ SubSeq(s, 1, Len(p)) = p
RECURSIVE ReplaceAll(_, _, _)
ReplaceAll(s, old, new) ==
    IF s = <<>> THEN <<>>
    ELSE IF HasPrefix(s, old)
         THEN new \o ReplaceAll(SubSeq(s, Len(old) + 1, Len(s)), old, new)
         ELSE <<Head(s)>> \o ReplaceAll(Tail(s), old, new)

(***************************************************************************)
(* Errors: a kind and the wrapped cause.                                   *)
(***************************************************************************)
Nil == [kind |-> "nil"]
Err(kind, cause) == [kind |-> kind, cause |-> cause]
\* fieldToError and errors.New: a plain message.
fieldToError == Err("message", Nil)
\* fmt.Errorf("field %s: %w", name, err)
Errorf(err) == Err("fmt.wrapError", err)
\* ctx.Err() of a cancelled context.
ctxErr == Err("context.Canceled", Nil)

(***************************************************************************)
(* Values of type interface{}.                                             *)
(***************************************************************************)
IntV(i) == [t |-> "int", i |-> i]
StrV(s) == [t |-> "string", s |-> s]
\* A float64 holding num/den exactly (den a power of two), or the float64
\* nearest to num/den when it is the result of a division.
FloatV(num, den) == [t |-> "float64", num |-> num, den |-> den]
TimeV(y, m, d) == [t |-> "time.Time", y |-> y, m |-> m, d |-> d]
BoolV == [t |-> "bool"]

RECURSIVE Gcd(_, _)
Gcd(a, b) == IF b = 0 THEN a ELSE Gcd(b, a % b)
Abs(x) == IF x < 0 THEN -x ELSE x
\* The quotient num/den in lowest terms.
Ratio(num, den) ==
    LET g == Gcd(Abs(num), den) IN FloatV(num \div g, den \div g)
\* Truncation toward zero of num/den (Go's int(f), int64(f)).
Trunc(num, den) == IF num >= 0 THEN num \div den ELSE -((-num) \div den)

(***************************************************************************)
(* Utility functions (processor.go, "Utility Functions").                 *)
(***************************************************************************)
ErrInvalidIntegerInput == Err("errors.New: invalid integer input", Nil)
ErrInvalidDateLength == Err("errors.New: invalid date length for field", Nil)

\* for _, c := range b { if c < '0' || c > '9' {return 0, Err}; n = n*10 + int(c-'0') }
RECURSIVE atoiLoop(_, _)
atoiLoop(b, n) ==
    IF b = <<>> THEN [val |-> n, err |-> Nil]
    ELSE IF ~IsDigit(Head(b)) THEN [val |-> 0, err |-> ErrInvalidIntegerInput]
    ELSE atoiLoop(Tail(b), Wrap(n * 10 + DigitVal(Head(b))))

atoiUnsafe(b) == atoiLoop(b, 0)

RECURSIVE pow10(_)
pow10(n) == IF n <= 0 THEN 1 ELSE 10 * pow10(n - 1)

\* parseFloatBytes once atoiUnsafe has returned r.
parseFloatOf(r, decimal) ==
    IF r.err # Nil THEN [val |-> FloatV(0, 1), err |-> r.err]
    ELSE [val |-> Ratio(r.val, pow10(decimal)), err |-> Nil]

parseFloatBytes(b, decimal) == parseFloatOf(atoiUnsafe(b), decimal)

\* The three replacements rewrite disjoint letters into digits, so the order
\* in which Go ranges over the map does not change the result.
convertDateFormat(format) ==
    ReplaceAll(ReplaceAll(ReplaceAll(format,
        <<"Y", "Y", "Y", "Y">>, <<"2", "0", "0", "6">>),
        <<"M", "M">>, <<"0", "1">>),
        <<"D", "D">>, <<"0", "2">>)

IsLeap(y) == (y % 4 = 0) /\ ((y % 100 # 0) \/ (y % 400 = 0))
daysIn(m, y) ==
    IF m = 2 THEN (IF IsLeap(y) THEN 29 ELSE 28)
    ELSE IF m \in {4, 6, 9, 11} THEN 30 ELSE 31

AllDigits(s) == \A i \in 1..Len(s) : IsDigit(s[i])
RECURSIVE DigitsVal(_, _)
DigitsVal(s, n) == IF s = <<>> THEN n ELSE DigitsVal(Tail(s), n * 10 + DigitVal(Head(s)))

ParseError == Err("time.ParseError", Nil)

\* time.Parse for a layout whose reference-time chunks are "2006", "01" and
\* "02"; every other byte of the layout is a literal.  acc holds the year,
\* month and day read so far (-1: not in the layout).
RECURSIVE timeParseLoop(_, _, _)
timeParseLoop(layout, value, acc) ==
    IF layout = <<>> THEN
        IF value # <<>> THEN [val |-> TimeV(1, 1, 1), err |-> ParseError]
        ELSE LET y == IF acc.y < 0 THEN 0 ELSE acc.y
                 m == IF acc.m < 0 THEN 1 ELSE acc.m
                 d == IF acc.d < 0 THEN 1 ELSE acc.d
             IN IF d < 1 \/ d > daysIn(m, y)
                THEN [val |-> TimeV(1, 1, 1), err |-> ParseError]
                ELSE [val |-> TimeV(y, m, d), err |-> Nil]
    ELSE IF HasPrefix(layout, <<"2", "0", "0", "6">>) THEN
        IF Len(value) < 4 \/ ~AllDigits(SubSeq(value, 1, 4))
        THEN [val |-> TimeV(1, 1, 1), err |-> ParseError]
        ELSE timeParseLoop(SubSeq(layout, 5, Len(layout)), SubSeq(value, 5, Len(value)),
                           [acc EXCEPT !.y = DigitsVal(SubSeq(value, 1, 4), 0)])
    ELSE IF HasPrefix(layout, <<"0", "1">>) THEN
        IF Len(value) < 2 \/ ~AllDigits(SubSeq(value, 1, 2))
           \/ DigitsVal(SubSeq(value, 1, 2), 0) \notin 1..12
        THEN [val |-> TimeV(1, 1, 1), err |-> ParseError]
        ELSE timeParseLoop(SubSeq(layout, 3, Len(layout)), SubSeq(value, 3, Len(value)),
                           [acc EXCEPT !.m = DigitsVal(SubSeq(value, 1, 2), 0)])
    ELSE IF HasPrefix(layout, <<"0", "2">>) THEN
        IF Len(value) < 2 \/ ~AllDigits(SubSeq(value, 1, 2))
        THEN [val |-> TimeV(1, 1, 1), err |-> ParseError]
        ELSE timeParseLoop(SubSeq(layout, 3, Len(layout)), SubSeq(value, 3, Len(value)),
                           [acc EXCEPT !.d = DigitsVal(SubSeq(value, 1, 2), 0)])
    ELSE IF value = <<>> \/ Head(value) # Head(layout)
        THEN [val |-> TimeV(1, 1, 1), err |-> ParseError]
        ELSE timeParseLoop(Tail(layout), Tail(value), acc)

timeParse(layout, value) == timeParseLoop(layout, value, [y |-> -1, m |-> -1, d |-> -1])

parseDateBytes(b, format) ==
    IF Len(b) # Len(format)
    THEN [val |-> TimeV(1, 1, 1), err |-> ErrInvalidDateLength]
    ELSE timeParse(convertDateFormat(format), b)

\* The padding of fmt's %0*d: zeros between the sign and the digits up to
\* width; a negative width left-justifies with spaces.
fmtPad(width, sign, digits) ==
    IF width < 0
    THEN sign \o digits \o Repeat(SP, (-width) - Len(sign) - Len(digits))
    ELSE sign \o Repeat("0", width - Len(sign) - Len(digits)) \o digits

\* Zero-padded decimal of n in w bytes (n >= 0).
ZeroPad(n, w) == fmtPad(w, <<>>, Itoa(n))

\* time.Time.Format for the same layouts (years 0..9999).
RECURSIVE timeFormat(_, _)
timeFormat(value, layout) ==
    IF layout = <<>> THEN <<>>
    ELSE IF HasPrefix(layout, <<"2", "0", "0", "6">>)
        THEN ZeroPad(value.y, 4) \o timeFormat(value, SubSeq(layout, 5, Len(layout)))
    ELSE IF HasPrefix(layout, <<"0", "1">>)
        THEN ZeroPad(value.m, 2) \o timeFormat(value, SubSeq(layout, 3, Len(layout)))
    ELSE IF HasPrefix(layout, <<"0", "2">>)
        THEN ZeroPad(value.d, 2) \o timeFormat(value, SubSeq(layout, 3, Len(layout)))
    ELSE <<Head(layout)>> \o timeFormat(value, Tail(layout))

formatDate(value, format) == timeFormat(value, convertDateFormat(format))

\* strconv.Atoi: an optional sign and one or more digits, within int's range.
NumError == Err("strconv.NumError", Nil)
atoiRange(n) ==
    IF n > MaxInt \/ n < MinInt THEN [val |-> 0, err |-> NumError]
    ELSE [val |-> n, err |-> Nil]
atoiDigits(neg, body) ==
    IF body = <<>> \/ ~AllDigits(body) THEN [val |-> 0, err |-> NumError]
    ELSE atoiRange(IF neg THEN -DigitsVal(body, 0) ELSE DigitsVal(body, 0))
strconvAtoi(s) ==
    IF s # <<>> /\ Head(s) \in {"+", "-"}
    THEN atoiDigits(Head(s) = "-", Tail(s))
    ELSE atoiDigits(FALSE, s)

toInt(value) ==
    CASE value.t = "int" -> [val |-> value.i, err |-> Nil]
      [] value.t = "int64" -> [val |-> value.i, err |-> Nil]
      [] value.t = "float64" -> [val |-> Trunc(value.num, value.den), err |-> Nil]
      [] value.t = "string" -> strconvAtoi(value.s)
      [] OTHER -> [val |-> 0, err |-> Err("CannotConvertToInt", fieldToError)]

\* strconv.ParseFloat over the model's alphabet, where the only numerals are
\* signed runs of digits.  A float is the pair numerator, denominator.
parseFloatString(r) == [num |-> r.val, den |-> 1, err |-> r.err]
toFloat(value) ==
    CASE value.t = "float64" -> [num |-> value.num, den |-> value.den, err |-> Nil]
      [] value.t = "float32" -> [num |-> value.num, den |-> value.den, err |-> Nil]
      [] value.t = "int" -> [num |-> value.i, den |-> 1, err |-> Nil]
      [] value.t = "int64" -> [num |-> value.i, den |-> 1, err |-> Nil]
      [] value.t = "string" -> parseFloatString(strconvAtoi(value.s))
      [] OTHER -> [num |-> 0, den |-> 1, err |-> Err("CannotConvertToFloat", fieldToError)]

\* fmt.Sprintf("%0*d", width, n): the sign counts in the width, zeros fill
\* between the sign and the digits; a negative width left-justifies with
\* spaces.
Sprintf0d(width, n) ==
    fmtPad(width, IF n < 0 THEN <<"-">> ELSE <<>>, Itoa(Abs(n)))

(***************************************************************************)
(* Maps (map[string]interface{}): functions from a set of names.           *)
(***************************************************************************)
EmptyMap == [n \in {} |-> 0]
MapSet(m, k, v) == [n \in (DOMAIN m) \cup {k} |-> IF n = k THEN v ELSE m[n]]

(***************************************************************************)
(* FieldSpec and the processor's helper methods.                           *)
(***************************************************************************)
FieldSpec(name, type, start, length, format, decimal) ==
    [Name |-> name, Type |-> type, Start |-> start, Length |-> length,
     Format |-> format, Decimal |-> decimal, End |-> 0]

\* The int case's result once atoiUnsafe has returned r.
parseIntOf(r) == [val |-> IntV(r.val), err |-> r.err]

\* parseFieldValue after bytes.TrimSpace.
parseTrimmed(field, trimmedValue) ==
    IF Len(trimmedValue) = 0
    THEN [val |-> BoolV, err |-> Err("FieldIsEmpty", fieldToError)]
    ELSE CASE field.Type = "int" -> parseIntOf(atoiUnsafe(trimmedValue))
           [] field.Type = "float" -> parseFloatBytes(trimmedValue, field.Decimal)
           [] field.Type = "date" -> parseDateBytes(trimmedValue, field.Format)
           [] field.Type = "string" -> [val |-> StrV(trimmedValue), err |-> Nil]
           [] OTHER -> [val |-> BoolV, err |-> Err("UnsupportedFieldType", fieldToError)]

parseFieldValue(field, rawValue) == parseTrimmed(field, TrimSpace(rawValue))

\* The int case of formatFieldValue once toInt has returned r.
formatInt(field, r) ==
    IF r.err # Nil
    THEN [str |-> <<>>, err |-> Err("FieldValueIsNotAnInt", Errorf(r.err))]
    ELSE [str |-> Sprintf0d(field.Length, r.val), err |-> Nil]

\* The float case of formatFieldValue once toFloat has returned r.
formatFloat(field, r) ==
    IF r.err # Nil
    THEN [str |-> <<>>, err |-> Err("FieldValueIsNotAnFloat", fieldToError)]
    ELSE [str |-> Sprintf0d(field.Length, Trunc(r.num * pow10(field.Decimal), r.den)),
          err |-> Nil]

formatFieldValue(field, value) ==
    CASE field.Type = "int" -> formatInt(field, toInt(value))
      [] field.Type = "float" -> formatFloat(field, toFloat(value))
      [] field.Type = "date" ->
            IF value.t # "time.Time"
            THEN [str |-> <<>>, err |-> Err("FieldValueIsNotAnDate", fieldToError)]
            ELSE [str |-> formatDate(value, field.Format), err |-> Nil]
      [] field.Type = "string" ->
            IF value.t # "string"
            THEN [str |-> <<>>, err |-> Err("FieldValueIsNotAnString", fieldToError)]
            ELSE [str |-> value.s, err |-> Nil]
      [] OTHER -> [str |-> <<>>, err |-> Err("UnsupportedFieldType", fieldToError)]

\* s[low:high] panics unless 0 <= low <= high <= cap(s).
SliceInRange(low, high, cap) == 0 <= low /\ low <= high /\ high <= cap

\* parseRecord once parseFieldValue has returned r: the wrap of its error,
\* or the map store.
parseRecordValue(field, r, m) ==
    IF r.err # Nil
    THEN [panic |-> FALSE, err |-> Err("FailedToParseField", Errorf(r.err)), m |-> m]
    ELSE [panic |-> FALSE, err |-> Nil, m |-> MapSet(m, field.Name, r.val)]

\* parseRecord: the bounds check, the slice, the decode and the map store.
parseRecord(record, field, m) ==
    IF field.End > Len(record)
    THEN [panic |-> FALSE, err |-> Err("FieldExceedsRecordLength", fieldToError), m |-> m]
    ELSE IF ~SliceInRange(Wrap(field.Start - 1), field.End, Len(record))
    THEN [panic |-> TRUE, err |-> Nil, m |-> m]
    ELSE parseRecordValue(field,
             parseFieldValue(field, Slice(record, Wrap(field.Start - 1), field.End)), m)

(***************************************************************************)
(* What a call hands back: kind is "ok" (a result and a nil error), "err"  *)
(* (an error) or "panic" (a run-time panic left the call); nilres says the *)
(* first result is nil.  A cancellation input c says which poll of         *)
(* ctx.Done() first finds the context cancelled (0: none).                 *)
(***************************************************************************)
Ret(kind, nilres, val, bytes, err) ==
    [kind |-> kind, nilres |-> nilres, val |-> val, bytes |-> bytes, err |-> err]
RetErr(err) == Ret("err", TRUE, EmptyMap, <<>>, err)
RetPanic == Ret("panic", TRUE, EmptyMap, <<>>, Nil)

Done(c, i) == c # 0 /\ c <= i

\* The loop of ParseRecord from field i on, with the result map so far.
RECURSIVE ParseLoop(_, _, _, _, _)
\* The loop once parseRecord has returned r for field i.
ParseStep(fields, record, c, i, r) ==
    IF r.panic THEN RetPanic
    ELSE IF r.err # Nil THEN RetErr(r.err)
    ELSE ParseLoop(fields, record, c, i + 1, r.m)

ParseLoop(fields, record, c, i, result) ==
    IF i > Len(fields) THEN Ret("ok", FALSE, result, <<>>, Nil)
    ELSE IF Done(c, i) THEN RetErr(ctxErr)
    ELSE ParseStep(fields, record, c, i, parseRecord(record, fields[i], result))

ParseRecordOp(fields, record, c) == ParseLoop(fields, record, c, 1, EmptyMap)

(***************************************************************************)
(* PackRecord on the backing array of the buffer taken from the pool.      *)
(* A []byte is a window on a backing array: arr is the array (cap(buf) is  *)
(* its length), total is len(buf).                                         *)
(***************************************************************************)
RECURSIVE totalLengthOf(_, _, _)
totalLengthOf(fields, i, acc) ==
    IF i > Len(fields) THEN acc
    ELSE totalLengthOf(fields, i + 1, Wrap(acc + fields[i].Length))

\* A total that keeps only the last field's length ("=" for "+=").
totalLengthLastOnly(fields) ==
    IF fields = <<>> THEN 0 ELSE fields[Len(fields)].Length

\* totalLength after the summing loop of PackRecord.
totalLength(fields) == totalLengthOf(fields, 1, 0)

Min(a, b) == IF a < b THEN a ELSE b

\* copy(buf[low:high], src) on the backing array.
CopyInto(arr, low, high, src) ==
    LET n == Min(high - low, Len(src)) IN
    [k \in 1..Len(arr) |-> IF low < k /\ k <= low + n THEN src[k - low] ELSE arr[k]]

\* A missing key reported as a formatting failure.
errMissingReportedAsFormat == Err("FailedToFormatField", fieldToError)

\* The errors PackRecord raises itself.
errMissingDataForField == Err("MissingDataForField", fieldToError)
errFieldExceedsSpecifiedLength == Err("FieldExceedsSpecifiedLength", fieldToError)

\* A length test that lets through a text one byte too long.
exceedsLengthOffByOne(strValue, field) == Len(strValue) > field.Length + 1

\* len(strValue) > field.Length
exceedsLength(strValue, field) == Len(strValue) > field.Length

\* strValue + strings.Repeat(" ", field.Length-len(strValue))
padValue(strValue, field) == strValue \o Repeat(SP, field.Length - Len(strValue))

\* The loop of PackRecord from field i on.
RECURSIVE PackLoop(_, _, _, _, _, _)
\* The loop once formatFieldValue has returned f for field.
PackField(fields, data, c, i, arr, total, field, f) ==
    IF f.err # Nil
    THEN [ret |-> RetErr(Err("FailedToFormatField", f.err)), arr |-> arr]
    ELSE IF exceedsLength(f.str, field)
    THEN [ret |-> RetErr(errFieldExceedsSpecifiedLength), arr |-> arr]
    ELSE IF ~SliceInRange(Wrap(field.Start - 1), field.End, Len(arr))
    THEN [ret |-> RetPanic, arr |-> arr]
    ELSE PackLoop(fields, data, c, i + 1,
                  CopyInto(arr, Wrap(field.Start - 1), field.End, padValue(f.str, field)),
                  total)

PackLoop(fields, data, c, i, arr, total) ==
    IF i > Len(fields)
    THEN [ret |-> Ret("ok", FALSE, EmptyMap, SubSeq(arr, 1, total), Nil), arr |-> arr]
    ELSE IF Done(c, i) THEN [ret |-> RetErr(ctxErr), arr |-> arr]
    ELSE IF fields[i].Name \notin DOMAIN data
    THEN [ret |-> RetErr(errMissingDataForField), arr |-> arr]
    ELSE PackField(fields, data, c, i, arr, total, fields[i],
                   formatFieldValue(fields[i], data[fields[i].Name]))

\* make([]byte, n): n zero bytes.
MakeBytes(n) == Repeat(NUL, n)

\* PackRecord with got the backing array of recordPool.Get().  made says buf
\* was replaced by a new array; arr is the array of buf when the call ends,
\* which the deferred function puts into the pool.
PackResult(r, made) == [ret |-> r.ret, arr |-> r.arr, made |-> made]

\* PackRecord from the choice of the buffer on, with total the total length.
PackBuf(fields, data, c, got, total) ==
    IF Len(got) < total
    THEN PackResult(PackLoop(fields, data, c, 1, MakeBytes(total), total), TRUE)
    ELSE IF total < 0
    THEN [ret |-> RetPanic, arr |-> got, made |-> FALSE]
    ELSE PackResult(PackLoop(fields, data, c, 1, got, total), FALSE)

PackRecordOp(fields, data, c, got) == PackBuf(fields, data, c, got, totalLength(fields))

\* recordPool.New
recordPoolNew == MakeBytes(PoolCap)

(***************************************************************************)
(* LoadSpec: the loop that sets End and validates each field.              *)
(***************************************************************************)
RECURSIVE LoadLoop(_, _)
\* The validation of field i, whose End has been set in f.
LoadField(f, i) ==
    IF f[i].Start <= 0 \/ f[i].Length <= 0
    THEN [fields |-> f, err |-> Err("StartAndLengthMustBeGreaterThanZero", fieldToError)]
    ELSE IF f[i].Type = ""
    THEN [fields |-> f, err |-> Err("FieldHasNoTypeSpecified", fieldToError)]
    ELSE LoadLoop(f, i + 1)

LoadLoop(fields, i) ==
    IF i > Len(fields) THEN [fields |-> fields, err |-> Nil]
    ELSE LoadField([fields EXCEPT
                      ![i].End = Wrap(fields[i].Start + fields[i].Length - 1)], i)

(***************************************************************************)
(* The inputs the callers draw from.                                       *)
(***************************************************************************)
Names == {"a", "b"}

\* Type, format and decimal of a field: the four built-in types, a type no
\* branch handles, and no type.
Kinds ==
    { [Type |-> "int", Format |-> <<>>, Decimal |-> 0],
      [Type |-> "string", Format |-> <<>>, Decimal |-> 0],
      [Type |-> "float", Format |-> <<>>, Decimal |-> 1],
      [Type |-> "date", Format |-> <<"D", "D">>, Decimal |-> 0],
      [Type |-> "bool", Format |-> <<>>, Decimal |-> 0],
      [Type |-> "", Format |-> <<>>, Decimal |-> 0] }

\* One-field specifications: every kind at starts 1, 2 and MaxInt with
\* lengths 1 and 2, three fields LoadSpec rejects, a float field with a
\* negative decimal and a date field without a format.
OneFieldSpecs ==
    { <<FieldSpec("a", k.Type, st, ln, k.Format, k.Decimal)>> :
        k \in Kinds \ {[Type |-> "", Format |-> <<>>, Decimal |-> 0]},
        st \in {1, 2, MaxInt}, ln \in {1, 2} } \cup
    { <<FieldSpec("a", "int", 0, 1, <<>>, 0)>>,
      <<FieldSpec("a", "int", 1, 0, <<>>, 0)>>,
      <<FieldSpec("a", "", 1, 1, <<>>, 0)>>,
      <<FieldSpec("a", "float", 1, 1, <<>>, -1)>>,
      <<FieldSpec("a", "date", 1, 1, <<>>, 0)>> }

\* Two-field specifications: adjacent, overlapping and gapped layouts, with
\* distinct and with repeated names.
PairFields ==
    { FieldSpec(n, "string", st, 1, <<>>, 0) : n \in Names, st \in {1, 2} }

TwoFieldSpecs == { <<f, g>> : f \in PairFields, g \in PairFields }

\* What the JSON decoder makes of the reader: a syntax error (ok = FALSE) or
\* the decoded fields.
SpecInputs ==
    { [ok |-> FALSE, fields |-> <<>>] } \cup
    { [ok |-> TRUE, fields |-> fs] : fs \in {<<>>} \cup OneFieldSpecs \cup TwoFieldSpecs }

Values ==
    { IntV(1), IntV(-1), IntV(12), StrV(<<"a">>), StrV(<<>>), StrV(<<"a", "b", "a">>),
      FloatV(3, 2), FloatV(-1, 2), TimeV(0, 1, 3), BoolV }

PairValues == { StrV(<<"a">>), StrV(<<"b">>), StrV(<<"a", "b">>) }

DataChoices ==
    { EmptyMap } \cup
    { [n \in {"a"} |-> v] : v \in Values } \cup
    { [n \in {"b"} |-> v] : v \in PairValues } \cup
    { [n \in Names |-> IF n = "a" THEN v ELSE w] : v \in PairValues, w \in PairValues }

RecordChoices ==
    { <<>>, <<"1">>, <<"a">>, <<SP>>, <<"1", "2">>, <<"1", SP>>, <<SP, "a">>,
      <<"-", "1">>, <<SP, SP>>, <<"0", "3">>, <<"3", "2">>, <<"9", "9">>,
      <<"1", "a", "b">> }

CancelChoices == {0, 1, 2}

(***************************************************************************)
(* The state.                                                              *)
(***************************************************************************)
VARIABLES
    spec,        \* p.spec
    fieldCount,  \* p.fieldCount
    specLoaded,  \* p.spec is as a LoadSpec that returned nil left it
    heap,        \* the backing arrays that are still referenced, by identity
    pool,        \* recordPool: the arrays of the buffers it holds
    held,        \* the first buffer a PackRecord returned, kept by its caller
    npacks,      \* PackRecord calls so far
    call,        \* the call that has just returned, or Idle
    store,       \* a FieldHandlerStore: the options it was built from and its sync.Map
    hcall        \* the last call on the store or of a field handler, or Idle

vars == <<spec, fieldCount, specLoaded, heap, pool, held, npacks, call, store, hcall>>

Idle == [op |-> "idle"]
NoHeld == [arr |-> 0, bytes |-> <<>>, data |-> EmptyMap]
\* No store has been built yet.
NoStore == [built |-> FALSE, opts |-> <<>>, m |-> EmptyMap]

\* The bytes the caller reads through the buffer it holds.
HeldView == SubSeq(heap[held.arr], 1, Len(held.bytes))

Init ==
    /\ spec = [Fields |-> <<>>]
    /\ fieldCount = 0
    /\ specLoaded = FALSE
    /\ heap = EmptyMap
    /\ pool = {}
    /\ held = NoHeld
    /\ npacks = 0
    /\ call = Idle
    /\ store = NoStore
    /\ hcall = Idle

(***************************************************************************)
(* The operations.                                                         *)
(***************************************************************************)
\* LoadSpec(ctx, specReader): cancelled says ctx is done at the entry check.
\* The specification is loaded before records are packed.
\* LoadSpec after the decode, with r what the loop leaves.
LoadDecoded(in, r) ==
    /\ spec' = [Fields |-> r.fields]
    /\ fieldCount' = IF r.err = Nil THEN Len(r.fields) ELSE fieldCount
    /\ specLoaded' = (r.err = Nil)
    /\ call' = [op |-> "LoadSpec", cancelled |-> FALSE, in |-> in,
                ret |-> IF r.err = Nil THEN Ret("ok", TRUE, EmptyMap, <<>>, Nil)
                        ELSE RetErr(r.err)]

LoadSpec(cancelled, in) ==
    /\ call = Idle
    /\ npacks = 0
    /\ IF cancelled
       THEN /\ call' = [op |-> "LoadSpec", cancelled |-> cancelled, in |-> in, ret |-> RetErr(ctxErr)]
            /\ UNCHANGED <<spec, fieldCount, specLoaded>>
       ELSE IF ~in.ok
       THEN /\ call' = [op |-> "LoadSpec", cancelled |-> cancelled, in |-> in,
                        ret |-> RetErr(Err("FailedToDecodeSpecJSON", Err("json", Nil)))]
            /\ UNCHANGED <<spec, fieldCount, specLoaded>>
       ELSE LoadDecoded(in, LoadLoop(in.fields, 1))
    /\ UNCHANGED <<heap, pool, held, npacks, store, hcall>>

\* ParseRecord(ctx, record); packed says the record is the buffer the caller
\* holds from PackRecord.  ParseRecord reads p.spec alone, which no PackRecord
\* changes, so the records of RecordChoices are parsed before the first
\* PackRecord and the packed buffer after it.
\* ParseRecord that caches the size of its result in p.fieldCount.
ParseRecordCachesCount(c, record, packed) ==
    /\ call = Idle
    /\ call' = [op |-> "ParseRecord", c |-> c, record |-> record, packed |-> packed,
                ret |-> ParseRecordOp(spec.Fields, record, c)]
    /\ fieldCount' = Cardinality(DOMAIN ParseRecordOp(spec.Fields, record, c).val)
    /\ UNCHANGED <<spec, specLoaded, heap, pool, held, npacks, store, hcall>>

ParseRecord(c, record, packed) ==
    /\ call = Idle
    /\ call' = [op |-> "ParseRecord", c |-> c, record |-> record, packed |-> packed,
                ret |-> ParseRecordOp(spec.Fields, record, c)]
    /\ UNCHANGED <<spec, fieldCount, specLoaded, heap, pool, held, npacks, store, hcall>>

NewId(h) == CHOOSE i \in 1..(Cardinality(DOMAIN h) + 1) : i \notin DOMAIN h

\* PackRecord(ctx, data).  src is the array of the buffer recordPool.Get()
\* hands out: one the pool holds, or 0 when the pool holds none any more (the
\* runtime may drop pooled items at any time) and New makes one.
\* The end of PackRecord: r is what the body leaves, id the array of buf,
\* which the deferred function puts into the pool and, on success, the
\* caller holds.
PackDeferred(c, data, src, got, r, id) ==
    /\ pool' = {id}
    /\ held' = IF held = NoHeld /\ r.ret.kind = "ok"
               THEN [arr |-> id, bytes |-> r.ret.bytes, data |-> data]
               ELSE held
    /\ heap' = [i \in {id} \cup (IF held' = NoHeld THEN {} ELSE {held'.arr}) |->
                  IF i = id THEN r.arr ELSE heap[i]]
    /\ call' = [op |-> "PackRecord", c |-> c, data |-> data, src |-> src,
                got |-> got, arr |-> id, ret |-> r.ret]

PackBody(c, data, src, got, r) ==
    PackDeferred(c, data, src, got, r, IF r.made \/ src = 0 THEN NewId(heap) ELSE src)

PackGot(c, data, src, got) ==
    PackBody(c, data, src, got, PackRecordOp(spec.Fields, data, c, got))

PackRecord(c, data, src) ==
    /\ call = Idle
    /\ npacks < MaxPacks
    /\ PackGot(c, data, src, IF src = 0 THEN recordPoolNew ELSE heap[src])
    /\ npacks' = npacks + 1
    /\ UNCHANGED <<spec, fieldCount, specLoaded, store, hcall>>

(***************************************************************************)
(* Matching an error against a kind.  The two revisions of the error       *)
(* package under src/ are both modelled.                                   *)
(***************************************************************************)
\* reflect.TypeOf of an error value: the dynamic type, one per kind.
TypeOf(err) == err.kind

\* The sentinel of kind k in the revision whose kinds embed *IError:
\* Creator(nil), a value of the kind's own type.
SentinelOf(k) == Err(k, Nil)

\* The sentinel of kind k in the revision whose kinds embed InternalError:
\* getFirstClass(Creator), the errors.New message of one Creator(nil) call.
\* No error made later holds this pointer unless it was passed in as cause.
FirstClassOf(k) == [kind |-> "errors.errorString", of |-> k, cause |-> Nil]

\* IsError of src/internal/error/error.go: the two dynamic types are equal.
IsError(errExpected, err) ==
    IF errExpected = Nil THEN err = Nil
    ELSE TypeOf(err) = TypeOf(errExpected)

\* errors.Is(err, target) for a sentinel target: target itself is err or is
\* in err's tree of causes.
RECURSIVE errorsIs(_, _)
errorsIs(err, target) == err # Nil /\ (err = target \/ errorsIs(err.cause, target))

\* errors.As(err, &target) with target a variable of type interface{}: every
\* non-nil error is assignable to interface{}, so the first error of the chain
\* is taken.
errorsAs(err) == err # Nil

\* IsError of src/unnamed/part_001: errors.Is, then errors.As into
\* reflect.New(errType).Interface().
IsErrorIsAs(errExpected, err) ==
    IF errExpected = Nil THEN err = Nil
    ELSE errorsIs(err, errExpected) \/ errorsAs(err)

\* The kinds the matchers are tried with and the errors they are tried on:
\* nil, and errors made by a kind's Creator around no cause, a message, a
\* sentinel, another kind's error, or another kind's error wrapped by
\* fmt.Errorf("%w").
ErrorKinds == {"FailedToParseField", "FieldIsEmpty", "MissingDataForField"}
CauseChoices ==
    {Nil, fieldToError}
      \cup {FirstClassOf(k) : k \in ErrorKinds}
      \cup {SentinelOf(k) : k \in ErrorKinds}
      \cup {Errorf(Err(k, fieldToError)) : k \in ErrorKinds}
ErrorChoices == {Nil} \cup {Err(k, c) : k \in ErrorKinds, c \in CauseChoices}

\* MatchError(sentinel of k)(err), by the matcher of each revision.
MatchError(k, err) ==
    /\ call = Idle
    /\ npacks = 0
    /\ call' = [op |-> "MatchError", k |-> k, err |-> err,
                ret |-> IsError(SentinelOf(k), err),
                retIsAs |-> IsErrorIsAs(FirstClassOf(k), err)]
    /\ UNCHANGED <<spec, fieldCount, specLoaded, heap, pool, held, npacks, store, hcall>>

\* The caller takes the result.
Return ==
    /\ call # Idle
    /\ call' = Idle
    /\ UNCHANGED <<spec, fieldCount, specLoaded, heap, pool, held, npacks, store, hcall>>

Next ==
    \/ \E cancelled \in BOOLEAN, in \in SpecInputs : LoadSpec(cancelled, in)
    \/ \E c \in CancelChoices, record \in RecordChoices :
          npacks = 0 /\ ParseRecord(c, record, FALSE)
    \/ \E c \in CancelChoices : held # NoHeld /\ ParseRecord(c, HeldView, TRUE)
    \/ \E c \in CancelChoices, data \in DataChoices, src \in pool \cup {0} :
          PackRecord(c, data, src)
    \/ \E k \in ErrorKinds, err \in ErrorChoices : MatchError(k, err)
    \/ Return

Spec == Init /\ [][Next]_vars

(***************************************************************************)
(* The field handler store.                                                *)
(***************************************************************************)
MaxOpts == 3
StoreNames == {"int", "date"}
NilHandler == "nil"
Handlers == {"h1", "h2", NilHandler}

\* The StoreOptions values WithFieldHandler returns, as what they store.
StoreOption(fieldName, handler) == [name |-> fieldName, handler |-> handler]
OptionChoices == {StoreOption(n, h) : n \in StoreNames, h \in Handlers}
OptsChoices == UNION {[1..n -> OptionChoices] : n \in 0..MaxOpts}

\* s.m.LoadOrStore in place of s.m.Store: the first registration stays.
WithFieldHandlerKeepsFirst(m, opt) ==
    IF opt.name \in DOMAIN m THEN m ELSE MapSet(m, opt.name, opt.handler)

\* The option WithFieldHandler(fieldName, handler) applied to the map of a
\* store: s.m.Store(fieldName, handler).
WithFieldHandler(m, opt) == MapSet(m, opt.name, opt.handler)

\* The loop of NewFieldHandlerStore from option i on.
RECURSIVE applyOpts(_, _, _)
applyOpts(m, storeOpts, i) ==
    IF i > Len(storeOpts) THEN m
    ELSE applyOpts(WithFieldHandler(m, storeOpts[i]), storeOpts, i + 1)

processorVars == <<spec, fieldCount, specLoaded, heap, pool, held, npacks, call>>

NewFieldHandlerStore(storeOpts) ==
    /\ ~store.built
    /\ store' = [built |-> TRUE, opts |-> storeOpts, m |-> applyOpts(EmptyMap, storeOpts, 1)]
    /\ hcall' = [op |-> "NewFieldHandlerStore"]
    /\ UNCHANGED processorVars

\* s.m.Load(fieldName), then the type assertion or nil.
GetFieldHandler(fieldName) ==
    /\ store.built
    /\ hcall' = [op |-> "GetFieldHandler", fieldName |-> fieldName,
                 ret |-> IF fieldName \in DOMAIN store.m THEN store.m[fieldName]
                         ELSE NilHandler]
    /\ UNCHANGED store
    /\ UNCHANGED processorVars

StoreNext ==
    \/ \E storeOpts \in OptsChoices : NewFieldHandlerStore(storeOpts)
    \/ \E fieldName \in StoreNames \cup {"missing"} : GetFieldHandler(fieldName)

StoreSpec == Init /\ [][StoreNext]_vars

(***************************************************************************)
(* The field handlers of fields.go, called on their own.                   *)
(***************************************************************************)
\* parseDateField of fields.go after bytes.TrimSpace; parseDateBytes is the
\* same function as the processor's.
parseDateTrimmed(field, trimmedValue) ==
    IF Len(trimmedValue) = 0
    THEN [val |-> TimeV(1, 1, 1), err |-> Err("FieldIsEmpty", fieldToError)]
    ELSE IF Len(trimmedValue) # Len(field.Format)
    THEN [val |-> TimeV(1, 1, 1), err |-> Err("InvalidDateLength", fieldToError)]
    ELSE parseDateBytes(trimmedValue, field.Format)

parseDateField(field, rawValue) == parseDateTrimmed(field, TrimSpace(rawValue))

\* The date fields and raw values the handler is called with: every text of
\* up to MaxRaw bytes over a few digits and the space, and four-byte texts
\* for the month-and-day format.
MaxRaw == 3
RawBytes == {"0", "1", "3", "9", SP}
DateFormats == {<<"D", "D">>, <<"M", "M", "D", "D">>}
DateFields == {FieldSpec("d", "date", 1, Len(f), f, 0) : f \in DateFormats}
RawChoices ==
    UNION {[1..n -> RawBytes] : n \in 0..MaxRaw} \cup
    {<<"1", "3", "0", "1">>, <<"0", "2", "3", "0">>, <<"0", "2", "2", "9">>,
     <<"1", "2", "3", "1">>, <<"0", "0", "1", "0">>}

ParseDateField(field, rawValue) ==
    /\ hcall' = [op |-> "parseDateField", field |-> field, rawValue |-> rawValue,
                 ret |-> parseDateField(field, rawValue)]
    /\ UNCHANGED store
    /\ UNCHANGED processorVars

HandlerNext == \E field \in DateFields, rawValue \in RawChoices : ParseDateField(field, rawValue)

HandlerSpec == Init /\ [][HandlerNext]_vars

(***************************************************************************)
(* Properties.  They read the call that has just returned (call), the      *)
(* processor it ran on and, for PackRecord, the buffer Get handed out.     *)
(***************************************************************************)
IsParse == call.op = "ParseRecord"
IsPack == call.op = "PackRecord"
Fields == spec.Fields

\* The sum of the declared lengths, as a number (no wrap-around).
RECURSIVE SumLengths(_)
SumLengths(fs) == IF fs = <<>> THEN 0 ELSE Head(fs).Length + SumLengths(Tail(fs))

\* ParseRecord's loop reaches field i: no poll up to i's finds the context
\* cancelled and every earlier field was decoded.
ParseReaches(i) ==
    /\ ~Done(call.c, i)
    /\ ParseRecordOp(SubSeq(Fields, 1, i - 1), call.record, 0).kind = "ok"

\* C1: for a successfully loaded spec and any record, ParseRecord never
\* slices outside the record: it does not panic, a field it reaches whose
\* end is greater than len(record) makes it return FieldExceedsRecordLength,
\* and a successful parse decoded the whole range of every field.
C1_ParseStaysInsideRecord ==
    (IsParse /\ specLoaded) =>
        /\ call.ret.kind # "panic"
        /\ \A i \in 1..Len(Fields) :
              (ParseReaches(i) /\ Fields[i].End > Len(call.record)) =>
                  (call.ret.kind = "err" /\ call.ret.err.kind = "FieldExceedsRecordLength")
        /\ call.ret.kind = "ok" =>
              \A i \in 1..Len(Fields) :
                  /\ 1 <= Fields[i].Start
                  /\ Fields[i].Start + Fields[i].Length - 1 <= Len(call.record)

\* C3: the buffer a successful PackRecord returned is the caller's own: no
\* later PackRecord changes a byte of it.
C3_ReturnedBufferOwned ==
    held # NoHeld => HeldView = held.bytes

\* C6: when PackRecord succeeds, the length of the returned buffer is the
\* sum of the lengths of the declared fields.
C6_PackedLengthIsSumOfLengths ==
    (IsPack /\ specLoaded /\ call.ret.kind = "ok") =>
        Len(call.ret.bytes) = SumLengths(Fields)

\* C6 happens: a successful PackRecord on a loaded two-field spec.
C6_Witness ==
    /\ IsPack /\ specLoaded /\ call.ret.kind = "ok"
    /\ Len(Fields) = 2 /\ Len(call.ret.bytes) = 2

\* What formatFieldValue makes of the value data holds for field f.
Encoded(f, data) == formatFieldValue(f, data[f.Name])

\* Field f has a value in data whose encoded text exists.
HasText(f, data) == f.Name \in DOMAIN data /\ Encoded(f, data).err = Nil

\* v is a decimal of at most decimal fractional digits.
IsScaled(v, decimal) == (v.num * pow10(decimal)) % v.den = 0

\* The value data holds for field f satisfies the formatting contract of
\* f's type and fits f's length.
FitsField(f, data) ==
    /\ HasText(f, data)
    /\ Len(Encoded(f, data).str) <= f.Length
    /\ f.Type = "float" => IsScaled(toFloat(data[f.Name]), f.Decimal)

Contract(fs, data) == \A i \in 1..Len(fs) : FitsField(fs[i], data)

\* C2: round trip.  With a loaded spec and a value map that satisfies the
\* contract of every declared field, PackRecord succeeds, and ParseRecord of
\* the packed bytes succeeds and returns the original value of every field.
C2_RoundTrip ==
    /\ (IsPack /\ specLoaded /\ call.c = 0 /\ Contract(Fields, call.data)) =>
          call.ret.kind = "ok"
    /\ (IsParse /\ call.packed /\ specLoaded /\ call.c = 0
          /\ HeldView = held.bytes /\ Contract(Fields, held.data)) =>
          /\ call.ret.kind = "ok"
          /\ \A i \in 1..Len(Fields) :
                /\ Fields[i].Name \in DOMAIN call.ret.val
                /\ call.ret.val[Fields[i].Name] = held.data[Fields[i].Name]

\* C4: pooling is not observable.  Whatever buffer the pool hands out,
\* PackRecord returns what a run on a fresh buffer of exactly the total
\* length returns: the same bytes or the same error.
C4_PoolNotObservable ==
    (IsPack /\ specLoaded) =>
        call.ret = PackRecordOp(Fields, call.data, call.c, <<>>).ret

\* The bytes of buf at the 0-based positions [low, high), where they exist.
Range(buf, low, high) ==
    [k \in 1..(high - low) |-> IF low + k \in 1..Len(buf) THEN buf[low + k] ELSE "none"]

\* C5: on a successful PackRecord the returned buffer holds, for every
\* declared field, at [start-1, end) the field's encoded text right-padded
\* with spaces to the field's length.
C5_FieldRangesPopulated ==
    (IsPack /\ specLoaded /\ call.ret.kind = "ok") =>
        \A i \in 1..Len(Fields) :
            Range(call.ret.bytes, Fields[i].Start - 1, Fields[i].End) =
                padValue(Encoded(Fields[i], call.data).str, Fields[i])

AllDigitsOfLength(r, n) == Len(r) = n /\ \A k \in 1..Len(r) : IsDigit(r[k])

\* C7: zero padding.  On a successful PackRecord the bytes of every int or
\* float field are exactly length ASCII digits: no sign, no space.
C7_NumericFieldsAreDigits ==
    (IsPack /\ specLoaded /\ call.ret.kind = "ok") =>
        \A i \in 1..Len(Fields) :
            Fields[i].Type \in {"int", "float"} =>
                AllDigitsOfLength(Range(call.ret.bytes, Fields[i].Start - 1, Fields[i].End),
                                  Fields[i].Length)

\* C8: padding.  On a successful PackRecord the bytes of every string field
\* whose text is no longer than its length are the text followed by
\* length - len(text) spaces.
C8_StringFieldsSpacePadded ==
    (IsPack /\ specLoaded /\ call.ret.kind = "ok") =>
        \A i \in 1..Len(Fields) :
            (/\ Fields[i].Type = "string"
             /\ Fields[i].Name \in DOMAIN call.data
             /\ call.data[Fields[i].Name].t = "string"
             /\ Len(call.data[Fields[i].Name].s) <= Fields[i].Length) =>
                Range(call.ret.bytes, Fields[i].Start - 1, Fields[i].End) =
                    call.data[Fields[i].Name].s \o
                        Repeat(SP, Fields[i].Length - Len(call.data[Fields[i].Name].s))

\* The encoded text of field f is longer than f's length.
TooLong(f, data) == HasText(f, data) /\ Len(Encoded(f, data).str) > f.Length

\* cap(buf) after PackRecord has chosen its buffer.
BufCap ==
    IF Len(call.got) < totalLength(Fields) THEN totalLength(Fields) ELSE Len(call.got)

\* PackRecord's loop reaches the work of field i: no poll up to i's finds the
\* context cancelled, and every earlier field had a value, was encoded, fitted
\* its length and was copied.
PackReaches(i) ==
    /\ ~Done(call.c, i)
    /\ totalLength(Fields) >= 0
    /\ \A j \in 1..(i - 1) :
          /\ HasText(Fields[j], call.data)
          /\ ~TooLong(Fields[j], call.data)
          /\ SliceInRange(Wrap(Fields[j].Start - 1), Fields[j].End, BufCap)

\* C9 as stated: whenever some field's encoded text is longer than its
\* length, PackRecord (not cancelled) fails with FieldExceedsSpecifiedLength
\* and returns no buffer.
C9_AnyTooLongFieldIsReported ==
    (IsPack /\ specLoaded /\ call.c = 0
       /\ \E i \in 1..Len(Fields) : TooLong(Fields[i], call.data)) =>
        /\ call.ret.kind = "err"
        /\ call.ret.err.kind = "FieldExceedsSpecifiedLength"
        /\ call.ret.nilres

\* C9 amended: PackRecord never truncates.  A call with a field whose
\* encoded text is longer than its length returns no buffer, and when the
\* loop reaches that field the error is FieldExceedsSpecifiedLength.
C9_NeverTruncates ==
    (IsPack /\ specLoaded) =>
        \A i \in 1..Len(Fields) :
            TooLong(Fields[i], call.data) =>
                /\ call.ret.kind # "ok"
                /\ call.ret.nilres
                /\ PackReaches(i) =>
                      (call.ret.kind = "err"
                         /\ call.ret.err.kind = "FieldExceedsSpecifiedLength")

\* C9 happens: the second field of a loaded spec is reached with a text
\* longer than its length and PackRecord reports it.
C9_Witness ==
    /\ IsPack /\ specLoaded /\ Len(Fields) = 2
    /\ TooLong(Fields[2], call.data) /\ PackReaches(2)
    /\ call.ret.kind = "err"
    /\ call.ret.err.kind = "FieldExceedsSpecifiedLength"

\* C10 as stated: whenever the value map lacks the key of some declared
\* field, PackRecord (not cancelled) fails with MissingDataForField and
\* returns no buffer.
C10_AnyMissingFieldIsReported ==
    (IsPack /\ specLoaded /\ call.c = 0
       /\ \E i \in 1..Len(Fields) : Fields[i].Name \notin DOMAIN call.data) =>
        /\ call.ret.kind = "err"
        /\ call.ret.err.kind = "MissingDataForField"
        /\ call.ret.nilres

\* C10 amended: a call whose value map lacks the key of a declared field
\* returns no buffer, and when the loop reaches that field (then the first
\* such field in spec order) the error is MissingDataForField.
C10_MissingFieldNeverPacked ==
    (IsPack /\ specLoaded) =>
        \A i \in 1..Len(Fields) :
            Fields[i].Name \notin DOMAIN call.data =>
                /\ call.ret.kind # "ok"
                /\ call.ret.nilres
                /\ PackReaches(i) =>
                      (call.ret.kind = "err"
                         /\ call.ret.err.kind = "MissingDataForField")

\* C10 happens: the first field of a loaded spec is packed, the second has
\* no key in the value map and PackRecord reports it.
C10_Witness ==
    /\ IsPack /\ specLoaded /\ Len(Fields) = 2
    /\ Fields[2].Name \notin DOMAIN call.data /\ PackReaches(2)
    /\ call.ret.kind = "err"
    /\ call.ret.err.kind = "MissingDataForField"

\* The record holds the whole range of field i, and every byte of it is
\* white space.
AllSpace(s) == \A k \in 1..Len(s) : s[k] = SP
WhitespaceField(i) ==
    /\ SliceInRange(Fields[i].Start - 1, Fields[i].End, Len(call.record))
    /\ AllSpace(Slice(call.record, Fields[i].Start - 1, Fields[i].End))

\* C11: parsing a record in which the byte range of every field is white
\* space and every field is a string field succeeds, and the result map
\* holds the empty string for each field.
C11_WhitespaceStringIsEmptyString ==
    (IsParse /\ specLoaded /\ call.c = 0 /\ Len(Fields) >= 1
       /\ \A i \in 1..Len(Fields) : Fields[i].Type = "string" /\ WhitespaceField(i)) =>
        /\ call.ret.kind = "ok"
        /\ \A i \in 1..Len(Fields) :
              /\ Fields[i].Name \in DOMAIN call.ret.val
              /\ call.ret.val[Fields[i].Name] = StrV(<<>>)

\* kind is the kind of err or of an error in err's cause chain.
RECURSIVE InChain(_, _)
InChain(kind, err) ==
    err # Nil /\ (err.kind = kind \/ InChain(kind, err.cause))

\* C12: when ParseRecord reaches an int, float or date field whose bytes in
\* the record are all white space, it fails with FailedToParseField that has
\* FieldIsEmpty in its cause chain, and returns no map.
C12_WhitespaceNumberIsEmptyField ==
    (IsParse /\ specLoaded) =>
        \A i \in 1..Len(Fields) :
            (/\ ParseReaches(i)
             /\ Fields[i].Type \in {"int", "float", "date"}
             /\ WhitespaceField(i)) =>
                /\ call.ret.kind = "err"
                /\ call.ret.nilres
                /\ call.ret.err.kind = "FailedToParseField"
                /\ InChain("FieldIsEmpty", call.ret.err)

\* C12 happens: a loaded int field is parsed from a record of spaces.
C12_Witness ==
    /\ IsParse /\ specLoaded /\ Len(Fields) = 1
    /\ ParseReaches(1) /\ Fields[1].Type = "int" /\ WhitespaceField(1)
    /\ call.record = <<SP, SP>> /\ Fields[1].Length = 2
    /\ call.ret.kind = "err" /\ InChain("FieldIsEmpty", call.ret.err)

IsLoad == call.op = "LoadSpec"

\* LoadSpec was given a context that is not cancelled and a source the
\* decoder accepts.
LoadDecodes == IsLoad /\ ~call.cancelled /\ call.in.ok

\* C13: LoadSpec rejects a spec that has a field with start <= 0 or
\* length <= 0 with StartAndLengthMustBeGreaterThanZero, and after a
\* successful LoadSpec every stored field has start > 0, length > 0 and
\* end = start + length - 1, and the cached field count is the number of
\* fields.
C13_LoadSpecChecksPositions ==
    /\ (LoadDecodes /\ \E i \in 1..Len(call.in.fields) :
            call.in.fields[i].Start <= 0 \/ call.in.fields[i].Length <= 0) =>
          (call.ret.kind = "err"
             /\ call.ret.err.kind = "StartAndLengthMustBeGreaterThanZero")
    /\ (IsLoad /\ call.ret.kind = "ok") =>
          /\ fieldCount = Len(Fields)
          /\ \A i \in 1..Len(Fields) :
                /\ Fields[i].Start > 0
                /\ Fields[i].Length > 0
                /\ Fields[i].End = Fields[i].Start + Fields[i].Length - 1

\* The field types parseFieldValue and formatFieldValue handle.
HandledTypes == {"int", "float", "date", "string"}

\* C14: LoadSpec rejects a spec that has a field whose type is empty or has
\* no handler with FieldHasNoTypeSpecified, so after a successful LoadSpec
\* the type of every stored field has a handler.
C14_LoadSpecChecksHandlers ==
    /\ (LoadDecodes /\ \E i \in 1..Len(call.in.fields) :
            call.in.fields[i].Type \notin HandledTypes) =>
          (call.ret.kind = "err" /\ call.ret.err.kind = "FieldHasNoTypeSpecified")
    /\ (IsLoad /\ call.ret.kind = "ok") =>
          \A i \in 1..Len(Fields) : Fields[i].Type \in HandledTypes

\* C15: LoadSpec rejects a float field with decimal < 0 with
\* InvalidDecimalValue and a date field with an empty format with
\* MissingDateFormat, so no successfully loaded spec holds such a field.
C15_LoadSpecValidatesFields ==
    /\ (LoadDecodes /\ \E i \in 1..Len(call.in.fields) :
            call.in.fields[i].Type = "float" /\ call.in.fields[i].Decimal < 0) =>
          (call.ret.kind = "err" /\ call.ret.err.kind = "InvalidDecimalValue")
    /\ (LoadDecodes /\ \E i \in 1..Len(call.in.fields) :
            call.in.fields[i].Type = "date" /\ call.in.fields[i].Format = <<>>) =>
          (call.ret.kind = "err" /\ call.ret.err.kind = "MissingDateFormat")
    /\ (IsLoad /\ call.ret.kind = "ok") =>
          \A i \in 1..Len(Fields) :
              /\ ~(Fields[i].Type = "float" /\ Fields[i].Decimal < 0)
              /\ ~(Fields[i].Type = "date" /\ Fields[i].Format = <<>>)

\* PackRecord's loop comes to the poll of turn i: every earlier field had a
\* value, was encoded, fitted its length and was copied.
PackTurn(i) ==
    /\ totalLength(Fields) >= 0
    /\ \A j \in 1..(i - 1) :
          /\ HasText(Fields[j], call.data)
          /\ ~TooLong(Fields[j], call.data)
          /\ SliceInRange(Wrap(Fields[j].Start - 1), Fields[j].End, BufCap)

\* ParseRecord's loop comes to the poll of turn i: every earlier field was
\* decoded.
ParseTurn(i) == ParseRecordOp(SubSeq(Fields, 1, i - 1), call.record, 0).kind = "ok"

\* The call returned an error of the Cancelled kind and no result.
ReturnsCancelled ==
    /\ call.ret.kind = "err"
    /\ call.ret.nilres
    /\ call.ret.err.kind = "CancelledContext"

\* C16: in ParseRecord and PackRecord, when the cancellation signal is set
\* at the poll of a field's turn (the first field's included), the call
\* decodes or encodes neither that field nor a later one and returns an
\* error of the Cancelled kind with no result.
C16_CancelledCallReturnsCancelled ==
    /\ (IsParse /\ specLoaded /\ call.c \in 1..Len(Fields) /\ ParseTurn(call.c))
          => ReturnsCancelled
    /\ (IsPack /\ specLoaded /\ call.c \in 1..Len(Fields) /\ PackTurn(call.c))
          => ReturnsCancelled

\* C17: LoadSpec called with the cancellation signal already set fails with
\* an error of the Cancelled kind before it decodes the source, and leaves
\* the stored spec and the field count as they were.
C17_CancelledLoadSpecLeavesSpec ==
    [][(call = Idle /\ call'.op = "LoadSpec" /\ call'.cancelled) =>
          /\ call'.ret.kind = "err"
          /\ call'.ret.err.kind = "CancelledContext"
          /\ spec' = spec
          /\ fieldCount' = fieldCount]_vars

IsMatch == call.op = "MatchError"

\* Kind k is the kind of err or of an error in err's chain of causes (a
\* kind's sentinel counts as an error of that kind).
RECURSIVE KindInChain(_, _)
KindInChain(k, err) ==
    /\ err # Nil
    /\ (err.kind = k \/ err = FirstClassOf(k) \/ KindInChain(k, err.cause))

\* What C18 asks of one matcher result.
MatchesByIdentity(k, err, ret) ==
    /\ (err # Nil /\ err.kind = k) => ret
    /\ (err # Nil /\ ~KindInChain(k, err)) => ~ret
    /\ err = Nil => ~ret

\* C18: for every kind K and every error e made by a kind's Creator around
\* any cause (none included), the matcher for K answers true when e's outer
\* kind is K, false when K is neither e's kind nor the kind of an error in
\* e's chain of causes, and false for a nil error; this for the matcher of
\* each revision of the error package.
C18_MatchIsByIdentity ==
    IsMatch => /\ MatchesByIdentity(call.k, call.err, call.ret)
               /\ MatchesByIdentity(call.k, call.err, call.retIsAs)


\* The kinds of the taxonomy a field handler fails with.
HandlerKinds ==
    {"FieldIsEmpty", "UnsupportedFieldType", "FieldValueIsNotAnInt",
     "FieldValueIsNotAnFloat", "FieldValueIsNotAnDate", "FieldValueIsNotAnString"}

\* The error the call returned matches the wrapping kind and, when the
\* handler's error h has a kind of the taxonomy, that kind as well.
MatchesWrapAndRoot(wrapKind, h) ==
    h # Nil =>
       /\ call.ret.kind = "err"
       /\ IsError(SentinelOf(wrapKind), call.ret.err)
       /\ h.kind \in HandlerKinds => IsError(SentinelOf(h.kind), call.ret.err)

\* C19: when the handler of a field fails, the error ParseRecord returns
\* matches FailedToParseField and the error PackRecord returns matches
\* FailedToFormatField, and either also matches the kind of the handler's own
\* error (FieldIsEmpty, FieldValueIsNotAnInt, ...).
C19_WrappedErrorMatchesBothKinds ==
    /\ (IsParse /\ specLoaded) =>
          \A i \in 1..Len(Fields) :
             (/\ ParseReaches(i)
              /\ Fields[i].End <= Len(call.record)
              /\ SliceInRange(Wrap(Fields[i].Start - 1), Fields[i].End, Len(call.record)))
             => MatchesWrapAndRoot("FailedToParseField",
                   parseFieldValue(Fields[i],
                      Slice(call.record, Wrap(Fields[i].Start - 1), Fields[i].End)).err)
    /\ (IsPack /\ specLoaded) =>
          \A i \in 1..Len(Fields) :
             (PackReaches(i) /\ Fields[i].Name \in DOMAIN call.data)
             => MatchesWrapAndRoot("FailedToFormatField",
                   formatFieldValue(Fields[i], call.data[Fields[i].Name]).err)

\* The call returned the error err and no result.
ReturnsOnly(err) ==
    /\ call.ret.kind = "err"
    /\ call.ret.nilres
    /\ call.ret.err = err

\* C20: ParseRecord and PackRecord return either a result and a nil error or
\* an error and a nil result, never both and never a part of a result: the
\* first field in spec order that fails ends the call, and the error
\* returned is the one raised for that field.
C20_ResultOrFirstError ==
    ((IsParse \/ IsPack) /\ specLoaded) =>
        /\ call.ret.kind \in {"ok", "err"}
        /\ call.ret.kind = "ok" => (call.ret.err = Nil /\ ~call.ret.nilres)
        /\ call.ret.kind = "err" => (call.ret.err # Nil /\ call.ret.nilres)
        /\ IsParse =>
              \A i \in 1..Len(Fields) :
                 (ParseReaches(i) /\ parseRecord(call.record, Fields[i], EmptyMap).err # Nil)
                 => ReturnsOnly(parseRecord(call.record, Fields[i], EmptyMap).err)
        /\ IsPack =>
              \A i \in 1..Len(Fields) :
                 /\ (PackReaches(i) /\ Fields[i].Name \notin DOMAIN call.data)
                       => ReturnsOnly(errMissingDataForField)
                 /\ (/\ PackReaches(i)
                     /\ Fields[i].Name \in DOMAIN call.data
                     /\ Encoded(Fields[i], call.data).err # Nil)
                       => ReturnsOnly(Err("FailedToFormatField", Encoded(Fields[i], call.data).err))
                 /\ (PackReaches(i) /\ HasText(Fields[i], call.data) /\ TooLong(Fields[i], call.data))
                       => ReturnsOnly(errFieldExceedsSpecifiedLength)

\* C21: ParseRecord and PackRecord only read the processor and their
\* inputs: whatever the outcome of the call (success, failure, cancellation),
\* the step of the call leaves the stored spec (each field's End included),
\* the cached field count and the loaded flag as they were, and a
\* ParseRecord leaves the bytes of the record it was given (the caller's
\* buffer) as they were.
C21_CallsAreReadOnly ==
    [][(call = Idle /\ call'.op \in {"ParseRecord", "PackRecord"}) =>
          /\ spec' = spec
          /\ fieldCount' = fieldCount
          /\ specLoaded' = specLoaded
          /\ call'.op = "ParseRecord" => (heap' = heap /\ held' = held)]_vars

\* C21 happens: on a loaded two-field spec a call failed or was cancelled
\* after its first field.
C21_Witness ==
    /\ (IsParse \/ IsPack) /\ specLoaded
    /\ Len(Fields) = 2 /\ fieldCount = 2
    /\ call.ret.kind = "err"
    /\ call.c = 2

\* The handler of the last registration options makes for name, nil when
\* there is none.
Registered(options, name) == {i \in 1..Len(options) : options[i].name = name}
LastRegistered(options, name) ==
    IF Registered(options, name) = {} THEN NilHandler
    ELSE options[CHOOSE i \in Registered(options, name) :
                    \A j \in Registered(options, name) : j <= i].handler

\* C22: on a store NewFieldHandlerStore built from a sequence of
\* WithFieldHandler registrations, GetFieldHandler(name) returns the handler
\* of the last registration made for name, nil for a name never registered,
\* and the lookup leaves the contents of the store as they were.
C22_LookupReturnsLastRegistration ==
    [][hcall'.op = "GetFieldHandler" =>
          /\ hcall'.ret = LastRegistered(store.opts, hcall'.fieldName)
          /\ store' = store]_vars

\* C22 happens: a name registered twice with different handlers is looked up.
C22_Witness ==
    /\ hcall.op = "GetFieldHandler"
    /\ Cardinality(Registered(store.opts, hcall.fieldName)) >= 2
    /\ \E i, j \in Registered(store.opts, hcall.fieldName) :
          store.opts[i].handler # store.opts[j].handler
    /\ hcall.ret # NilHandler

\* The error is wrapKind around a cause chain that holds UnsupportedFieldType.
UnsupportedUnder(wrapKind, err) ==
    /\ err # Nil
    /\ err.kind = wrapKind
    /\ InChain("UnsupportedFieldType", err.cause)

\* C23: a field whose type name is unknown fails to decode, whatever its raw
\* bytes, and to encode, whatever its value, with UnsupportedFieldType:
\* ParseRecord returns FailedToParseField and PackRecord returns
\* FailedToFormatField, each with UnsupportedFieldType as the cause.
C23_UnknownTypeIsUnsupported ==
    /\ (IsParse /\ specLoaded) =>
          \A i \in 1..Len(Fields) :
             (/\ Fields[i].Type \notin HandledTypes
              /\ ParseReaches(i)
              /\ Fields[i].End <= Len(call.record)
              /\ SliceInRange(Wrap(Fields[i].Start - 1), Fields[i].End, Len(call.record)))
             => (call.ret.kind = "err" /\ UnsupportedUnder("FailedToParseField", call.ret.err))
    /\ (IsPack /\ specLoaded) =>
          \A i \in 1..Len(Fields) :
             (/\ Fields[i].Type \notin HandledTypes
              /\ PackReaches(i)
              /\ Fields[i].Name \in DOMAIN call.data)
             => (call.ret.kind = "err" /\ UnsupportedUnder("FailedToFormatField", call.ret.err))

\* The names the loaded spec declares.
FieldNames == {Fields[i].Name : i \in 1..Len(Fields)}

\* C24: when ParseRecord succeeds, the result map has exactly one entry per
\* declared field: its keys are the declared field names and its size is the
\* number of fields of the loaded spec.
C24_OneEntryPerField ==
    (IsParse /\ specLoaded /\ call.ret.kind = "ok") =>
        /\ DOMAIN call.ret.val = FieldNames
        /\ Cardinality(DOMAIN call.ret.val) = Len(Fields)

\* The orders the fields fs can be declared in.
Orders(n) == {p \in [1..n -> 1..n] : \A i, j \in 1..n : p[i] = p[j] => i = j}
Permuted(fs, p) == [i \in 1..Len(fs) |-> fs[p[i]]]

\* C25: parsing does not depend on the order of the fields: for the loaded
\* spec, every permutation of its fields and the record of the call,
\* ParseRecord on the permuted spec succeeds exactly when it succeeds on
\* the spec as loaded, and then returns the same map.
C25_ParseIgnoresFieldOrder ==
    (IsParse /\ specLoaded /\ call.c = 0) =>
        \A p \in Orders(Len(Fields)) :
           /\ (ParseRecordOp(Permuted(Fields, p), call.record, 0).kind = "ok")
                 <=> (call.ret.kind = "ok")
           /\ call.ret.kind = "ok" =>
                 ParseRecordOp(Permuted(Fields, p), call.record, 0).val = call.ret.val

\* The bytes of the record field i covers, and that ParseRecord comes to
\* decode them.
RawOf(i) == Slice(call.record, Wrap(Fields[i].Start - 1), Fields[i].End)
DecodesField(i) ==
    /\ ParseReaches(i)
    /\ Fields[i].End <= Len(call.record)
    /\ SliceInRange(Wrap(Fields[i].Start - 1), Fields[i].End, Len(call.record))

\* C26: decoding an int field whose trimmed bytes hold a byte outside
\* '0'..'9' (a letter, a sign, an inner space) fails with an error of kind
\* ValueNotInt (FieldValueIsNotAnInt).
C26_NonDigitIsValueNotInt ==
    (IsParse /\ specLoaded) =>
        \A i \in 1..Len(Fields) :
           (/\ Fields[i].Type = "int"
            /\ DecodesField(i)
            /\ \E k \in 1..Len(TrimSpace(RawOf(i))) : ~IsDigit(TrimSpace(RawOf(i))[k]))
           => (call.ret.kind = "err" /\ InChain("FieldValueIsNotAnInt", call.ret.err))

\* C27: decoding an int field whose trimmed bytes are all ASCII digits
\* gives the non-negative integer that digit string denotes (leading zeros
\* ignored), whatever the number of digits the field's length allows: the
\* result is never negative and never wraps around.
C27_DigitsDecodeToTheirNumber ==
    (IsParse /\ specLoaded) =>
        \A i \in 1..Len(Fields) :
           (/\ Fields[i].Type = "int"
            /\ DecodesField(i)
            /\ TrimSpace(RawOf(i)) # <<>>
            /\ AllDigits(TrimSpace(RawOf(i))))
           => /\ parseFieldValue(Fields[i], RawOf(i)).err = Nil
              /\ parseFieldValue(Fields[i], RawOf(i)).val
                    = IntV(DigitsVal(TrimSpace(RawOf(i)), 0))
              /\ parseFieldValue(Fields[i], RawOf(i)).val.i >= 0

\* C28: decoding a date field whose trimmed bytes are as long as the format
\* but denote no valid date under it (month 13, day 32) fails with an error
\* of kind ValueNotDate (FieldValueIsNotAnDate); trimmed bytes of another
\* length fail before that with InvalidDateLength.
C28_InvalidDateIsValueNotDate ==
    hcall.op = "parseDateField" =>
        /\ (/\ TrimSpace(hcall.rawValue) # <<>>
            /\ Len(TrimSpace(hcall.rawValue)) # Len(hcall.field.Format))
              => (hcall.ret.err # Nil /\ hcall.ret.err.kind = "InvalidDateLength")
        /\ (/\ Len(TrimSpace(hcall.rawValue)) = Len(hcall.field.Format)
            /\ timeParse(convertDateFormat(hcall.field.Format),
                         TrimSpace(hcall.rawValue)).err # Nil)
              => (hcall.ret.err # Nil /\ hcall.ret.err.kind = "FieldValueIsNotAnDate")

\* Every stored field has a positive start and length and the end they give.
StoredFieldsValid ==
    \A i \in 1..Len(spec.Fields) :
       /\ spec.Fields[i].Start > 0
       /\ spec.Fields[i].Length > 0
       /\ spec.Fields[i].End = spec.Fields[i].Start + spec.Fields[i].Length - 1

\* C29: after any sequence of successful and failed LoadSpec calls every
\* stored field has start > 0, length > 0 and end = start + length - 1, and
\* a LoadSpec that returns an error (undecodable JSON, invalid position,
\* missing type) leaves the stored spec and the field count as they were.
C29_FailedLoadKeepsSpec ==
    [][/\ StoredFieldsValid'
       /\ (call = Idle /\ call'.op = "LoadSpec" /\ call'.ret.kind = "err") =>
             (spec' = spec /\ fieldCount' = fieldCount)]_vars

\* C30: for every loaded spec (fields with gaps, overlapping, or not
\* starting at offset 1 included) and every value map, PackRecord writes
\* only inside the buffer it returns: the range [start-1, end) of every
\* field it writes lies within [0, total length), so the call never panics
\* on a slice bound and never writes past the length of what it returns.
C30_PackWritesInsideBuffer ==
    (IsPack /\ specLoaded) =>
        /\ call.ret.kind # "panic"
        /\ \A i \in 1..Len(Fields) :
              (PackReaches(i) /\ HasText(Fields[i], call.data) /\ ~TooLong(Fields[i], call.data))
              => /\ 0 <= Fields[i].Start - 1
                 /\ Fields[i].End <= totalLength(Fields)

====
